---- MODULE Spec2Model ----
(***************************************************************************)
(* code-manager (main.go): one run of do() = load the manifest             *)
(* <root>/repositories.txt, update() (walk the root for .git directories,  *)
(* merge, sort), upgrade() (clone / fetch / status+pull per entry), write  *)
(* the manifest back.                                                      *)
(*                                                                         *)
(* Strings that the code compares or orders (paths) are sequences of       *)
(* one-character strings, ordered bytewise as Go orders strings.  Remote   *)
(* URLs are only copied, so they are TLA+ strings.  The text printed by    *)
(* 'git status' is a sequence of tokens (the pieces the pattern            *)
(* gitStatusTemplateStr distinguishes; "\n" is a token of its own).        *)
(***************************************************************************)
EXTENDS Integers, Sequences, FiniteSets, TLC

(***************************************************************************)
(* Bounds of the model.                                                    *)
(***************************************************************************)
\* longest manifest (number of records) the file repositories.txt holds at start
MaxManifest == 2

(***************************************************************************)
(* Path strings.                                                           *)
(***************************************************************************)
\* byte value of the characters that occur in the model's paths
Ord(c) ==
    CASE c = "-" -> 45 [] c = "." -> 46 [] c = "/" -> 47
      [] c = "a" -> 97 [] c = "b" -> 98 [] c = "c" -> 99 [] c = "e" -> 101
      [] c = "f" -> 102
      [] c = "g" -> 103 [] c = "i" -> 105 [] c = "n" -> 110 [] c = "o" -> 111
      [] c = "p" -> 112 [] c = "r" -> 114 [] c = "s" -> 115 [] c = "t" -> 116
      [] c = "x" -> 120

\* Go's s < t on strings: bytewise lexicographic, a proper prefix is smaller
RECURSIVE StrLess(_, _)
StrLess(s, t) ==
    IF t = <<>> THEN FALSE
    ELSE IF s = <<>> THEN TRUE
    ELSE IF Head(s) = Head(t) THEN StrLess(Tail(s), Tail(t))
    ELSE Ord(Head(s)) < Ord(Head(t))

\* position of the last "/" of p (0 when there is none)
LastSep(p) ==
    IF \E k \in 1..Len(p) : p[k] = "/"
    THEN CHOOSE k \in 1..Len(p) : p[k] = "/" /\ \A j \in (k+1)..Len(p) : p[j] # "/"
    ELSE 0

\* filepath.Join(dir, name) for clean operands
Join(dir, name) == dir \o <<"/">> \o name

\* filepath.Dir(p) for a clean absolute path below the file system's root
Dir(p) == IF LastSep(p) <= 1 THEN <<"/">> ELSE SubSeq(p, 1, LastSep(p) - 1)

\* info.Name(): the last element of the path
Base(p) == SubSeq(p, LastSep(p) + 1, Len(p))

DotGit == <<".", "g", "i", "t">>
ConfigName == <<"c", "o", "n", "f", "i", "g">>

\* flags.RootDir of the runs modelled
RootDir == <<"/", "r">>

\* the directories that may hold a working tree: two siblings whose walk order
\* ("a" before "a-b") differs from their order as strings below them
\* ("/r/a-b" before "/r/a/b"), one nested in the other's working tree, and one
\* that the walk never finds unless it is cloned
DirA == Join(RootDir, <<"a">>)
DirAB == Join(DirA, <<"b">>)
DirAdashB == Join(RootDir, <<"a", "-", "b">>)
DirC == Join(RootDir, <<"c">>)
WorkDirs == {DirA, DirAB, DirAdashB, DirC}

Remotes == {"u1", "u2"}

(***************************************************************************)
(* The pattern gitStatusTemplateStr and Go's regexp matching of it.        *)
(* A pattern is a tree: lit (one token), class (one token of a set), seq,  *)
(* alt, opt (x?), plus (x+), bol (^) and eol ($).  The pattern is compiled *)
(* without flags, so ^ is the beginning and $ the end of the whole text.   *)
(***************************************************************************)
NL == "\n"
Digits == {"1", "2"}

Lit(tok) == [t |-> "lit", v |-> tok]
Class(toks) == [t |-> "class", set |-> toks]
Cat(parts) == [t |-> "seq", a |-> parts]
Alt(parts) == [t |-> "alt", a |-> parts]
Opt(r) == [t |-> "opt", r |-> r]
Plus(r) == [t |-> "plus", r |-> r]
Bol == [t |-> "bol"]
Eol == [t |-> "eol"]

OnMaster == "On branch master"
BehindBy == "Your branch is behind 'origin/master' by "
Commit == " commit"
CanFF == ", and can be fast-forwarded."
UpToDate == "Your branch is up-to-date with 'origin/master'."
UsePull == "  (use \"git pull\" to update your local branch)"
Clean == "nothing to commit, working tree clean"

\* the pattern without its last two lines: the working tree need not be clean
gitStatusTemplateNoClean ==
    Cat(<< Bol, Lit(OnMaster), Lit(NL),
           Alt(<< Cat(<< Lit(BehindBy), Plus(Class(Digits)), Lit(Commit),
                         Opt(Lit("s")), Lit(CanFF) >>),
                  Lit(UpToDate) >>),
           Lit(NL) >>)

\* the pattern with "\n" left out of the optional group's line, so that the
\* line break after the group is the group's own and no empty line is asked for
gitStatusTemplateNoBlank ==
    Cat(<< Bol, Lit(OnMaster), Lit(NL),
           Alt(<< Cat(<< Lit(BehindBy), Plus(Class(Digits)), Lit(Commit),
                         Opt(Lit("s")), Lit(CanFF) >>),
                  Lit(UpToDate) >>),
           Lit(NL),
           Opt(Cat(<< Lit(UsePull), Lit(NL) >>)),
           Lit(Clean), Lit(NL),
           Eol >>)

\* const gitStatusTemplateStr: the raw string's line breaks are newlines of the pattern
gitStatusTemplateStr ==
    Cat(<< Bol, Lit(OnMaster), Lit(NL),
           Alt(<< Cat(<< Lit(BehindBy), Plus(Class(Digits)), Lit(Commit),
                         Opt(Lit("s")), Lit(CanFF) >>),
                  Lit(UpToDate) >>),
           Lit(NL),
           Opt(Cat(<< Lit(UsePull), Lit(NL) >>)),
           Lit(NL),
           Lit(Clean), Lit(NL),
           Eol >>)

\* the positions where a match of re that begins at position i of text can end
RECURSIVE Ends(_, _, _)
Ends(re, text, i) ==
    CASE re.t = "lit" ->
           IF i <= Len(text) /\ text[i] = re.v THEN {i + 1} ELSE {}
      [] re.t = "class" ->
           IF i <= Len(text) /\ text[i] \in re.set THEN {i + 1} ELSE {}
      [] re.t = "bol" -> IF i = 1 THEN {i} ELSE {}
      [] re.t = "eol" -> IF i = Len(text) + 1 THEN {i} ELSE {}
      [] re.t = "seq" ->
           IF re.a = <<>> THEN {i}
           ELSE UNION { Ends(Cat(Tail(re.a)), text, j) : j \in Ends(Head(re.a), text, i) }
      [] re.t = "alt" ->
           UNION { Ends(re.a[k], text, i) : k \in 1..Len(re.a) }
      [] re.t = "opt" -> {i} \cup Ends(re.r, text, i)
      [] re.t = "plus" ->
           LET once == Ends(re.r, text, i)
           IN  once \cup UNION { Ends(re, text, j) : j \in once \ {i} }

\* Regexp.Match: the pattern matches somewhere in the text
Match(re, text) == \E i \in 1..(Len(text) + 1) : Ends(re, text, i) # {}

\* var gitStatusTemplateRe = regexp.MustCompile(gitStatusTemplateStr)
gitStatusTemplateRe == gitStatusTemplateStr

(***************************************************************************)
(* What 'git status' may print: the texts of the states a working tree can *)
(* be in, as git words them.                                               *)
(***************************************************************************)
Lines(ls) ==
    LET RECURSIVE F(_)
        F(q) == IF q = <<>> THEN <<>> ELSE Head(q) \o <<NL>> \o F(Tail(q))
    IN  F(ls)

Behind(n, plural) == <<BehindBy>> \o n \o <<Commit>> \o plural \o <<CanFF>>

StatusUpToDate == Lines(<< <<OnMaster>>, <<UpToDate>>, <<>>, <<Clean>> >>)
StatusBehind1 == Lines(<< <<OnMaster>>, Behind(<<"1">>, <<>>), <<UsePull>>, <<>>, <<Clean>> >>)
StatusBehind2 == Lines(<< <<OnMaster>>, Behind(<<"2">>, <<"s">>), <<UsePull>>, <<>>, <<Clean>> >>)
StatusBehind12 == Lines(<< <<OnMaster>>, Behind(<<"1", "2">>, <<"s">>), <<UsePull>>, <<>>, <<Clean>> >>)
StatusBehindNoHint == Lines(<< <<OnMaster>>, Behind(<<"2">>, <<"s">>), <<>>, <<Clean>> >>)
\* the three lines with no blank line between them
StatusThreeLines == Lines(<< <<OnMaster>>, <<UpToDate>>, <<Clean>> >>)
StatusUncommitted ==
    Lines(<< <<OnMaster>>, <<UpToDate>>, <<>>, <<"Changes not staged for commit:">>,
             <<"\tmodified:   main.go">>, <<>>,
             <<"no changes added to commit (use \"git add\" and/or \"git commit -a\")">> >>)
StatusBehindUncommitted ==
    Lines(<< <<OnMaster>>, Behind(<<"1">>, <<>>), <<UsePull>>, <<>>,
             <<"Untracked files:">>, <<"\tnotes.txt">>, <<>>,
             <<"nothing added to commit but untracked files present (use \"git add\" to track)">> >>)
StatusDiverged ==
    Lines(<< <<OnMaster>>, <<"Your branch and 'origin/master' have diverged,">>,
             <<"and have 1 and 2 different commits each, respectively.">>,
             <<"  (use \"git pull\" to merge the remote branch into yours)">>, <<>>, <<Clean>> >>)
StatusAhead ==
    Lines(<< <<OnMaster>>, <<"Your branch is ahead of 'origin/master' by 1 commit.">>,
             <<"  (use \"git push\" to publish your local commits)">>, <<>>, <<Clean>> >>)
StatusDetached == Lines(<< <<"HEAD detached at 1a2b3c4">>, <<Clean>> >>)
StatusOtherBranch ==
    Lines(<< <<"On branch dev">>, <<"Your branch is up-to-date with 'origin/dev'.">>, <<>>, <<Clean>> >>)
\* the accepted text after a line of its own, and before one
StatusLeading == <<"warning: something", NL>> \o StatusUpToDate
StatusTrailing == StatusUpToDate \o <<"extra", NL>>
StatusEmpty == <<>>

StatusTexts ==
    { StatusUpToDate, StatusBehind1, StatusBehind2, StatusBehind12, StatusBehindNoHint,
      StatusThreeLines, StatusUncommitted, StatusBehindUncommitted, StatusDiverged,
      StatusAhead, StatusDetached, StatusOtherBranch, StatusLeading, StatusTrailing,
      StatusEmpty }

(***************************************************************************)
(* The file system below RootDir.  F[d], for a directory d of WorkDirs:    *)
(*   kind    "absent"  no such directory                                   *)
(*           "plain"   a directory without .git                            *)
(*           "locked"  a directory that cannot be read or searched         *)
(*           "gitfile" a directory whose .git is a regular file            *)
(*           "repo"    a directory whose .git is a directory               *)
(*   config  of a repo: "missing" (.git/config cannot be opened),          *)
(*           "invalid" (not an ini file) or "ok"                           *)
(*   ini     of an ok config: section name -> (key name -> value)          *)
(***************************************************************************)
OriginSection == "remote \"origin\""
CoreSection == "core" :> ("bare" :> "false")
NoIni == <<>>

NoDir == [kind |-> "absent", config |-> "missing", ini |-> NoIni]
PlainDir == [kind |-> "plain", config |-> "missing", ini |-> NoIni]
LockedDir == [kind |-> "locked", config |-> "missing", ini |-> NoIni]
GitFileDir == [kind |-> "gitfile", config |-> "missing", ini |-> NoIni]
RepoNoConfig == [kind |-> "repo", config |-> "missing", ini |-> NoIni]
RepoBadConfig == [kind |-> "repo", config |-> "invalid", ini |-> NoIni]
\* a repository with no remote at all (git init)
RepoNoOrigin == [kind |-> "repo", config |-> "ok", ini |-> CoreSection]
\* a repository whose origin has no url key
RepoNoUrl ==
    [kind |-> "repo", config |-> "ok",
     ini |-> CoreSection @@ (OriginSection :> ("fetch" :> "+refs/heads/*:refs/remotes/origin/*"))]
\* what 'git clone u d' leaves in d
RepoOf(u) ==
    [kind |-> "repo", config |-> "ok",
     ini |-> CoreSection @@
             (OriginSection :> ("url" :> u @@ "fetch" :> "+refs/heads/*:refs/remotes/origin/*"))]

ManifestName ==
    <<"r", "e", "p", "o", "s", "i", "t", "o", "r", "i", "e", "s", ".", "t", "x", "t">>

\* is d (a directory of WorkDirs) reachable: every directory above it exists
Present(F, d) == F[d].kind # "absent"

\* the paths that exist below RootDir, each with whether it is a directory
Nodes(F, hasManifest) ==
    {[path |-> RootDir, isDir |-> TRUE]}
    \cup (IF hasManifest THEN {[path |-> Join(RootDir, ManifestName), isDir |-> FALSE]} ELSE {})
    \cup {[path |-> d, isDir |-> TRUE] : d \in {w \in WorkDirs : Present(F, w)}}
    \cup {[path |-> Join(d, DotGit), isDir |-> FALSE] : d \in {w \in WorkDirs : F[w].kind = "gitfile"}}
    \cup {[path |-> Join(d, DotGit), isDir |-> TRUE] : d \in {w \in WorkDirs : F[w].kind = "repo"}}
    \cup {[path |-> Join(Join(d, DotGit), ConfigName), isDir |-> FALSE] :
             d \in {w \in WorkDirs : F[w].kind = "repo" /\ F[w].config # "missing"}}

\* the file system is a tree: a directory of WorkDirs exists only inside an
\* existing, readable directory
WellFormed(F) ==
    \A d \in WorkDirs :
        Present(F, d) /\ Dir(d) \in WorkDirs => F[Dir(d)].kind \in {"plain", "gitfile", "repo"}

(***************************************************************************)
(* remoteDir(path): the url of origin in <path>/config, read with          *)
(* gopkg.in/ini.v1.  Of that package, File.Section and Section.Key return  *)
(* the named section or key and, when the file has none, a new empty one:  *)
(* neither ever returns nil.                                               *)
(***************************************************************************)
\* gitConfig.Section(name)
Section(iniFile, name) ==
    [isNil |-> FALSE, keys |-> IF name \in DOMAIN iniFile THEN iniFile[name] ELSE <<>>]

\* section.Key(name), and key.Value()
Key(section, name) ==
    [isNil |-> FALSE,
     value |-> IF name \in DOMAIN section.keys THEN section.keys[name] ELSE ""]

\* remoteDir(path), path being the .git directory: [remote, err]
remoteDir(F, path) ==
    LET d == Dir(path)
        section == Section(F[d].ini, OriginSection)
        key == Key(section, "url")
    IN  IF F[d].config = "missing" THEN [remote |-> "", err |-> "open"]
        ELSE IF F[d].config = "invalid" THEN [remote |-> "", err |-> "ini"]
        ELSE IF section.isNil THEN [remote |-> "", err |-> "can't find origin"]
        ELSE IF key.isNil THEN [remote |-> "", err |-> "can't find origin.url"]
        ELSE [remote |-> key.value, err |-> "nil"]

(***************************************************************************)
(* filepath.Walk(flags.RootDir, fn) with update()'s callback.              *)
(***************************************************************************)
\* the callback returning nil, not filepath.SkipDir, after it has added an entry
WalkFnNoSkip(F, path, isDir, err, repos) ==
    IF err # "nil" THEN [repos |-> repos, ret |-> err]
    ELSE IF ~isDir \/ Base(path) # DotGit THEN [repos |-> repos, ret |-> "nil"]
    ELSE LET r == remoteDir(F, path)
         IN  IF r.err # "nil" THEN [repos |-> repos, ret |-> r.err]
             ELSE [repos |-> Append(repos, [Directory |-> Dir(path), Remote |-> r.remote]),
                   ret |-> "nil"]

\* the callback: [repos, ret], repos being config.Repos after the call
WalkFn(F, path, isDir, err, repos) ==
    IF err # "nil" THEN [repos |-> repos, ret |-> err]
    ELSE IF ~isDir \/ Base(path) # DotGit THEN [repos |-> repos, ret |-> "nil"]
    ELSE LET r == remoteDir(F, path)
         IN  IF r.err # "nil" THEN [repos |-> repos, ret |-> r.err]
             ELSE [repos |-> Append(repos, [Directory |-> Dir(path), Remote |-> r.remote]),
                   ret |-> "SkipDir"]

\* the paths of a set in ascending order (readDirNames sorts the names of one
\* directory, so the paths differ in their last element only)
SortedPaths(ps) ==
    [k \in 1..Cardinality(ps) |->
        CHOOSE x \in ps : Cardinality({y \in ps : StrLess(Base(y), Base(x))}) = k - 1]

IsDirectory(nodes, path) == \E n \in nodes : n.path = path /\ n.isDir

\* can the names in directory path be read
Readable(F, path) == path \notin WorkDirs \/ F[path].kind # "locked"

\* walk(path, info, walkFn) and its loop over the names of a directory:
\* st = [repos, visited, err].  (A result that is used more than once is bound
\* by "x \in {e}", which evaluates e once.)
RECURSIVE walk(_, _, _, _), walkNames(_, _, _, _)
walk(F, nodes, path, st) ==
    IF ~IsDirectory(nodes, path)
    THEN CHOOSE out \in
            { [repos |-> r.repos, visited |-> Append(st.visited, path), err |-> r.ret] :
                 r \in {WalkFn(F, path, FALSE, "nil", st.repos)} } : TRUE
    ELSE CHOOSE out \in
            { IF ~Readable(F, path) \/ st1.err # "nil" THEN st1
              ELSE walkNames(F, nodes, names, st1) :
                 st1 \in { [repos |-> r.repos, visited |-> Append(st.visited, path),
                            err |-> r.ret] :
                              r \in {WalkFn(F, path, TRUE,
                                            IF Readable(F, path) THEN "nil"
                                            ELSE "permission denied",
                                            st.repos)} },
                 names \in {SortedPaths({n.path : n \in {m \in nodes : Dir(m.path) = path}})}
            } : TRUE

walkNames(F, nodes, names, st) ==
    IF names = <<>> THEN [st EXCEPT !.err = "nil"]
    ELSE CHOOSE out \in
            { IF r.err # "nil" /\ (~IsDirectory(nodes, Head(names)) \/ r.err # "SkipDir")
              THEN r
              ELSE walkNames(F, nodes, Tail(names), [r EXCEPT !.err = "nil"]) :
                 r \in {walk(F, nodes, Head(names), st)} } : TRUE

\* filepath.Walk(root, fn)
Walk(F, nodes, root, repos) ==
    LET r == walk(F, nodes, root, [repos |-> repos, visited |-> <<>>, err |-> "nil"])
    IN  IF r.err = "SkipDir" THEN [r EXCEPT !.err = "nil"] ELSE r

(***************************************************************************)
(* update(): the merge by directory and the sort.                          *)
(***************************************************************************)
\* the map when an entry is stored only if its directory is not yet a key
RepoDictFirstWins(repos) ==
    [d \in {repos[k].Directory : k \in 1..Len(repos)} |->
        repos[CHOOSE k \in 1..Len(repos) :
                 /\ repos[k].Directory = d
                 /\ \A j \in 1..(k - 1) : repos[j].Directory # d].Remote]

\* repoDict after the loop "repoDict[repo.Directory] = repo.Remote": each
\* directory has the remote that was stored last
RepoDict(repos) ==
    [d \in {repos[k].Directory : k \in 1..Len(repos)} |->
        repos[CHOOSE k \in 1..Len(repos) :
                 /\ repos[k].Directory = d
                 /\ \A j \in (k + 1)..Len(repos) : repos[j].Directory # d].Remote]

\* every order in which "for dir, remote := range repoDict" can visit the keys
RECURSIVE Orders(_)
Orders(S) ==
    IF S = {} THEN {<<>>}
    ELSE UNION { { <<x>> \o o : o \in Orders(S \ {x}) } : x \in S }

\* the list appended in the order keys
FromDict(dict, keys) == [k \in 1..Len(keys) |-> [Directory |-> keys[k], Remote |-> dict[keys[k]]]]

\* the less function given to sort.Slice
Less(a, b) == StrLess(a.Directory, b.Directory)

\* a sort that leaves the list as it is
SortSliceNone(repos) == repos

\* sort.Slice(config.Repos, less): the entries in ascending order of less.
\* (sort.Slice is not stable; entries that less does not order keep their order
\* here, and the list update() sorts has no two of them.)
SortSlice(repos) ==
    LET Before(j, i) == Less(repos[j], repos[i]) \/ (~Less(repos[i], repos[j]) /\ j < i)
    IN  [k \in 1..Len(repos) |->
            repos[CHOOSE i \in 1..Len(repos) :
                     Cardinality({j \in 1..Len(repos) : Before(j, i)}) = k - 1]]

\* a merge that sorts the list without going through the map
MergeNoDict(repos, keys) == SortSlice(repos)

\* a merge that leaves the list in the order the map was iterated in
MergeNoSort(repos, keys) == FromDict(RepoDict(repos), keys)

\* lines 227-238: config.Repos after the merge, for one iteration order of the map
Merge(repos, keys) ==
    CHOOSE sorted \in
        { SortSlice(list) : list \in { FromDict(dict, keys) : dict \in {RepoDict(repos)} } } :
        TRUE

(***************************************************************************)
(* The manifest file and yaml.v2.  A document is the mapping the package   *)
(* reads and writes for Config: key "repos", a list of mappings with the   *)
(* keys "directory" and "remote" (the field names in lower case).          *)
(***************************************************************************)
\* yaml.Marshal(config)
Marshal(c) ==
    [repos |-> [k \in 1..Len(c.Repos) |->
                   [directory |-> c.Repos[k].Directory, remote |-> c.Repos[k].Remote]]]

\* yaml.Unmarshal(configYAML, &config), config being the zero Config
Unmarshal(doc) ==
    [Repos |-> [k \in 1..Len(doc.repos) |->
                   [Directory |-> doc.repos[k].directory, Remote |-> doc.repos[k].remote]]]

NoDoc == [repos |-> <<>>]
AbsentFile == [state |-> "absent", doc |-> NoDoc]
InvalidFile == [state |-> "invalid", doc |-> NoDoc]
YamlFile(doc) == [state |-> "yaml", doc |-> doc]

\* the records a manifest may hold when the program starts
StartRecords ==
    { [directory |-> DirA, remote |-> "u1"], [directory |-> DirAdashB, remote |-> "u2"],
      [directory |-> DirC, remote |-> "u1"], [directory |-> DirC, remote |-> "u2"] }

RECURSIVE SeqsUpTo(_, _)
SeqsUpTo(S, n) ==
    IF n = 0 THEN {<<>>}
    ELSE LET shorter == SeqsUpTo(S, n - 1)
         IN  shorter \cup { Append(q, x) : q \in {r \in shorter : Len(r) = n - 1}, x \in S }

StartFiles ==
    {AbsentFile, InvalidFile} \cup { YamlFile([repos |-> q]) : q \in SeqsUpTo(StartRecords, MaxManifest) }

\* the file systems the program may find
StartFs ==
    { F \in [WorkDirs -> {NoDir, PlainDir, LockedDir, GitFileDir, RepoNoConfig, RepoBadConfig,
                          RepoNoOrigin, RepoNoUrl, RepoOf("u1"), RepoOf("u2")}] :
        /\ F[DirA] \in {PlainDir, LockedDir, RepoNoOrigin, RepoOf("u2")}
        /\ F[DirAB] \in {NoDir, GitFileDir, RepoBadConfig, RepoOf("u1")}
        /\ F[DirAdashB] \in {NoDir, RepoNoConfig, RepoNoUrl, RepoOf("u1")}
        /\ F[DirC] = NoDir
        /\ WellFormed(F) }

(***************************************************************************)
(* State.                                                                  *)
(***************************************************************************)
VARIABLES
    pc,          \* where do() is: "load", "update", "upgrade", "save", "exit"
    flags,       \* var flags Flag
    config,      \* var config Config
    file,        \* <RootDir>/repositories.txt
    fs,          \* the directories below RootDir
    idx,         \* upgrade(): the index in config.Repos of the entry of the loop
    step,        \* upgrade(): the next call of the loop body: "clone", "fetch", "pull"
    cmds,        \* the git commands run in the loop body for the entry of the loop, in order
    log,         \* the lines glog got in the loop body for the entry of the loop, in order
    attempted,   \* the indexes of the entries gitClone was called for
    stdoutBytes, \* gitPull(): what 'git status' printed for the entry of the loop
    visited,     \* the paths update()'s callback was called with, in order
    written,     \* how many times do() called ioutil.WriteFile
    file0,       \* the manifest file as it was when the program started
    err          \* what do() returned ("nil": no error, or not returned yet)

vars == <<pc, flags, config, file, fs, idx, step, cmds, log, attempted, stdoutBytes,
          visited, written, file0, err>>

Init ==
    /\ pc = "load"
    /\ flags \in [RootDir : {RootDir}, Update : BOOLEAN, Upgrade : BOOLEAN]
    /\ config = [Repos |-> <<>>]
    /\ file \in StartFiles
    /\ file0 = file
    /\ fs \in StartFs
    /\ idx = 1
    /\ step = "clone"
    /\ cmds = <<>>
    /\ log = <<>>
    /\ attempted = {}
    /\ stdoutBytes = <<>>
    /\ visited = <<>>
    /\ written = 0
    /\ err = "nil"

\* do(), after the manifest is loaded and after update(): the next thing it does
AfterUpdate == IF flags.Upgrade THEN "upgrade" ELSE IF flags.Update THEN "save" ELSE "exit"
AfterLoad == IF flags.Update THEN "update" ELSE AfterUpdate
\* do() after upgrade(), writing the manifest whatever the update flag is
AfterUpgradeAlwaysSave == "save"

AfterUpgrade == IF flags.Update THEN "save" ELSE "exit"

\* the error is kept but do() goes on as if there were none
ReturnIgnored(e) == pc' = (IF pc = "save" THEN "exit" ELSE AfterUpdate) /\ err' = e

\* do() returns e, and main() logs it
Return(e) == pc' = "exit" /\ err' = e

\* do(), lines 243-252: read and parse the manifest
Load ==
    /\ pc = "load"
    /\ IF file.state = "absent" THEN Return("no such file") /\ UNCHANGED config
       ELSE IF file.state = "invalid" THEN Return("yaml") /\ UNCHANGED config
       ELSE /\ config' = Unmarshal(file.doc)
            /\ pc' = AfterLoad
            /\ UNCHANGED err
    /\ UNCHANGED <<flags, file, fs, idx, step, cmds, log, attempted, stdoutBytes, visited, written, file0>>

\* update(): the walk, then the merge and the sort
Update ==
    /\ pc = "update"
    /\ \E w \in {Walk(fs, Nodes(fs, TRUE), flags.RootDir, config.Repos)} :
           /\ visited' = w.visited
           /\ IF w.err # "nil"
              THEN /\ config' = [config EXCEPT !.Repos = w.repos]
                   /\ Return(w.err)
              ELSE /\ \E keys \in Orders(DOMAIN RepoDict(w.repos)) :
                         config' = [config EXCEPT !.Repos = Merge(w.repos, keys)]
                   /\ pc' = AfterUpdate
                   /\ UNCHANGED err
    /\ UNCHANGED <<flags, file, fs, idx, step, cmds, log, attempted, stdoutBytes, written, file0>>

(***************************************************************************)
(* upgrade(): the loop over config.Repos.  Each of gitClone, gitFetch and  *)
(* gitPull is one step; a git command ends with exit status 0 ("nil") or   *)
(* not, as the environment decides.                                        *)
(***************************************************************************)
ExitStatus == {"nil", "exit status 1"}

Cmd(name, repo, e) == [cmd |-> name, dir |-> repo.Directory, err |-> e]
Line(level, what, repo) == [level |-> level, msg |-> what, dir |-> repo.Directory]

\* os.Stat of a path that is never there (".git" not joined to repo.Directory)
StatWrongPath(F, d) ==
    IF F[d].kind = "locked" THEN "permission denied" ELSE "not exist"

\* os.Stat(filepath.Join(repo.Directory, ".git"))
Stat(F, d) ==
    IF F[d].kind \in {"repo", "gitfile"} THEN "nil"
    ELSE IF F[d].kind = "locked" THEN "permission denied"
    ELSE "not exist"

IsAbove(w, d) == Len(w) < Len(d) /\ SubSeq(d, 1, Len(w) + 1) = w \o <<"/">>

\* the file system after 'git clone remote d' succeeded
Cloned(F, d, remote) ==
    [w \in WorkDirs |->
        IF w = d THEN RepoOf(remote)
        ELSE IF IsAbove(w, d) /\ F[w].kind = "absent" THEN PlainDir
        ELSE F[w]]

\* "break" in the place of "continue": the loop ends
NextEntryBreak == idx' = Len(config.Repos) + 1 /\ step' = "clone"

\* the loop body once more for the same entry
NextEntryRetry == idx' = idx /\ step' = "clone"

\* "continue", and the end of the loop body: the next entry
NextEntry == idx' = idx + 1 /\ step' = "clone"

InLoop(s) == pc = "upgrade" /\ idx <= Len(config.Repos) /\ step = s

\* lines 150-157: gitClone(repo) and what upgrade() does with its result
GitClone ==
    /\ InLoop("clone")
    /\ attempted' = attempted \cup {idx}
    /\ stdoutBytes' = <<>>
    /\ LET repo == config.Repos[idx]
           st == Stat(fs, repo.Directory)
       IN  IF st = "nil"
           THEN \* filepath.SkipDir: no log for exist repos
                /\ cmds' = <<>>
                /\ log' = <<>>
                /\ step' = "fetch"
                /\ UNCHANGED <<idx, fs>>
           ELSE IF st # "not exist"
           THEN /\ cmds' = <<>>
                /\ log' = <<Line("Error", "Clone failed", repo)>>
                /\ NextEntry
                /\ UNCHANGED fs
           ELSE \E e \in ExitStatus :
                /\ cmds' = <<Cmd("clone", repo, e)>>
                /\ IF e = "nil"
                   THEN /\ fs' = Cloned(fs, repo.Directory, repo.Remote)
                        /\ log' = <<Line("Info", "Clone finished", repo)>>
                        /\ step' = "fetch"
                        /\ UNCHANGED idx
                   ELSE /\ log' = <<Line("Error", "Clone failed", repo)>>
                        /\ NextEntry
                        /\ UNCHANGED fs
    /\ UNCHANGED <<pc, flags, config, file, visited, written, file0, err>>

\* gitFetch(repo), with its error returned by upgrade() and so by do()
GitFetchAbort ==
    /\ InLoop("fetch")
    /\ LET repo == config.Repos[idx]
       IN  \E e \in ExitStatus :
           /\ cmds' = Append(cmds, Cmd("fetch", repo, e))
           /\ IF e = "nil"
              THEN /\ log' = Append(log, Line("Info", "Fetch finished", repo))
                   /\ step' = "pull"
                   /\ UNCHANGED <<idx, pc, err>>
              ELSE /\ log' = Append(log, Line("Error", "Fetch failed", repo))
                   /\ Return(e)
                   /\ UNCHANGED <<idx, step>>
    /\ UNCHANGED <<flags, config, file, fs, attempted, stdoutBytes, visited, written, file0>>

\* gitFetch(repo) with no "continue" after its failure
GitFetchGoOn ==
    /\ InLoop("fetch")
    /\ LET repo == config.Repos[idx]
       IN  \E e \in ExitStatus :
           /\ cmds' = Append(cmds, Cmd("fetch", repo, e))
           /\ log' = Append(log, IF e = "nil" THEN Line("Info", "Fetch finished", repo)
                                 ELSE Line("Error", "Fetch failed", repo))
           /\ step' = "pull"
           /\ UNCHANGED idx
    /\ UNCHANGED <<pc, flags, config, file, fs, attempted, stdoutBytes, visited, written, file0, err>>

\* lines 158-163: gitFetch(repo)
GitFetch ==
    /\ InLoop("fetch")
    /\ LET repo == config.Repos[idx]
       IN  \E e \in ExitStatus :
           /\ cmds' = Append(cmds, Cmd("fetch", repo, e))
           /\ IF e = "nil"
              THEN /\ log' = Append(log, Line("Info", "Fetch finished", repo))
                   /\ step' = "pull"
                   /\ UNCHANGED idx
              ELSE /\ log' = Append(log, Line("Error", "Fetch failed", repo))
                   /\ NextEntry
    /\ UNCHANGED <<pc, flags, config, file, fs, attempted, stdoutBytes, visited, written, file0, err>>

\* lines 164-171: gitPull(repo): 'git status', the match, 'git pull'
GitPull ==
    /\ InLoop("pull")
    /\ NextEntry
    /\ LET repo == config.Repos[idx]
       IN  \E se \in ExitStatus, text \in StatusTexts :
           /\ stdoutBytes' = text
           /\ IF se # "nil"
              THEN /\ cmds' = Append(cmds, Cmd("status", repo, se))
                   /\ log' = Append(log, Line("Error", "Upgrade failed", repo))
              ELSE IF ~Match(gitStatusTemplateRe, text)
              THEN \* filepath.SkipDir
                   /\ cmds' = Append(cmds, Cmd("status", repo, se))
                   /\ log' = Append(log, Line("Warning", "Upgrade skipped", repo))
              ELSE \E pe \in ExitStatus :
                   /\ cmds' = cmds \o <<Cmd("status", repo, se), Cmd("pull", repo, pe)>>
                   /\ log' = Append(log, IF pe = "nil"
                                         THEN Line("Info", "Upgrade finished", repo)
                                         ELSE Line("Error", "Upgrade failed", repo))
    /\ UNCHANGED <<pc, flags, config, file, fs, attempted, visited, written, file0, err>>

\* upgrade() returning with the last entry taken off the list
UpgradeReturnShorter ==
    /\ pc = "upgrade"
    /\ idx > Len(config.Repos)
    /\ pc' = AfterUpgrade
    /\ config' = [config EXCEPT !.Repos = SubSeq(@, 1, Len(@) - 1)]
    /\ cmds' = <<>>
    /\ log' = <<>>
    /\ stdoutBytes' = <<>>
    /\ UNCHANGED <<flags, file, fs, idx, step, attempted, visited, written, file0, err>>

\* line 173: the loop is over, upgrade() returns nil
UpgradeReturn ==
    /\ pc = "upgrade"
    /\ idx > Len(config.Repos)
    /\ pc' = AfterUpgrade
    /\ cmds' = <<>>
    /\ log' = <<>>
    /\ stdoutBytes' = <<>>
    /\ UNCHANGED <<flags, config, file, fs, idx, step, attempted, visited, written, file0, err>>

\* do(), lines 266-275: write the manifest
Save ==
    /\ pc = "save"
    /\ written' = written + 1
    /\ \E e \in {"nil", "write"} :
          /\ Return(e)
          /\ IF e = "nil" THEN file' = YamlFile(Marshal(config))
             ELSE file' \in {file, InvalidFile}
    /\ UNCHANGED <<flags, config, fs, idx, step, cmds, log, attempted, stdoutBytes, visited, file0>>

Next == Load \/ Update \/ GitClone \/ GitFetch \/ GitPull \/ UpgradeReturn \/ Save

Spec == Init /\ [][Next]_vars

\* The runs that liveness is checked on: every manifest file, and a root whose
\* directories are a plain directory or a repository, one of them with no
\* config.
FairFs ==
    { F \in StartFs : /\ F[DirA] \in {PlainDir, RepoOf("u2")}
                      /\ F[DirAB] = NoDir
                      /\ F[DirAdashB] \in {NoDir, RepoNoConfig} }

FairInit == Init /\ fs \in FairFs

\* the calls of do() are blocking and each returns: the program goes on until
\* do() has returned
FairSpec == FairInit /\ [][Next]_vars /\ WF_vars(Next)

(***************************************************************************)
(* Terms of the claims.                                                    *)
(***************************************************************************)
Last(q) == q[Len(q)]
Range(q) == {q[k] : k \in 1..Len(q)}

\* was the command run for the entry of the loop
HasCmd(name) == \E k \in 1..Len(cmds) : cmds[k].cmd = name
\* 'git status' was run for the entry of the loop and ended with exit status 0
StatusOk == \E k \in 1..Len(cmds) : cmds[k].cmd = "status" /\ cmds[k].err = "nil"

\* the outcome of the entry of the loop, read off the last line logged for it
Outcome ==
    IF log = <<>> THEN "none"
    ELSE IF Last(log).level = "Error" THEN "Failed"
    ELSE IF Last(log).level = "Warning" THEN "Skipped"
    ELSE IF Last(log).msg = "Upgrade finished" THEN "Success"
    ELSE "none"

\* the status texts of a clean master that is up to date with origin/master or
\* behind it and fast-forwardable, written out: branch line, tracking line,
\* the hint or not, an empty line, the clean line
AcceptedTexts ==
    { <<OnMaster, NL>> \o second \o <<NL>> \o hint \o <<NL, Clean, NL>> :
        second \in {<<UpToDate>>}
                   \cup { Behind(n, p) : n \in SeqsUpTo(Digits, 2) \ {<<>>}, p \in {<<>>, <<"s">>} },
        hint \in {<<>>, <<UsePull, NL>>} }

(***************************************************************************)
(* C1.  'git pull' is run only right after a 'git status' of the same      *)
(* repository that ended well and printed an accepted text (clean master,  *)
(* up to date or behind and fast-forwardable); after any other text no     *)
(* pull is run, the outcome is Skipped, and a warning and no error is      *)
(* logged.                                                                 *)
(***************************************************************************)
C1_PullOnlyAfterAcceptedStatus ==
    /\ \A k \in 1..Len(cmds) :
          cmds[k].cmd = "pull" =>
             /\ k > 1
             /\ cmds[k - 1] = [cmd |-> "status", dir |-> cmds[k].dir, err |-> "nil"]
             /\ stdoutBytes \in AcceptedTexts
    /\ (StatusOk /\ stdoutBytes \notin AcceptedTexts) =>
          /\ ~HasCmd("pull")
          /\ Outcome = "Skipped"
          /\ Last(log).level = "Warning"
          /\ \A k \in 1..Len(log) : log[k].level # "Error"

\* a status text with an uncommitted change was printed, and the entry was skipped
C1_Witness ==
    /\ StatusOk
    /\ stdoutBytes = StatusUncommitted
    /\ ~HasCmd("pull")
    /\ Outcome = "Skipped"

(***************************************************************************)
(* C2 as claimed: after the three lines with no empty line between them,   *)
(* pull is run, and the outcome is Success if it exits zero.               *)
(***************************************************************************)
C2_ThreeLinesPass ==
    (StatusOk /\ stdoutBytes = StatusThreeLines) =>
       /\ HasCmd("pull")
       /\ (Last(cmds).err = "nil" => Outcome = "Success")

(***************************************************************************)
(* C2, amended.  The up-to-date text as git prints it, with an empty line  *)
(* before "nothing to commit, working tree clean", passes the gate: pull   *)
(* is run, and the outcome is Success if it exits zero.  The three lines   *)
(* with no empty line between them do not pass: no pull, outcome Skipped.  *)
(***************************************************************************)
C2_UpToDatePassesWithEmptyLine ==
    /\ (StatusOk /\ stdoutBytes = StatusUpToDate) =>
          /\ HasCmd("pull")
          /\ (Last(cmds).err = "nil" => Outcome = "Success")
    /\ (StatusOk /\ stdoutBytes = StatusThreeLines) =>
          /\ ~HasCmd("pull")
          /\ Outcome = "Skipped"

\* the up-to-date text was printed, pull was run and the outcome is Success
C2_Witness ==
    /\ StatusOk
    /\ stdoutBytes = StatusUpToDate
    /\ HasCmd("pull")
    /\ Outcome = "Success"

(***************************************************************************)
(* C3.  In every update() that succeeds, each directory of the loaded      *)
(* manifest and of the discovered repositories is in the resulting         *)
(* manifest exactly once, and every discovered entry is in it with the     *)
(* remote the walk found: discovery overrides the loaded entry.            *)
(***************************************************************************)
C3_MergeDiscoveryWins ==
    [][ (pc = "update" /\ pc' # "exit") =>
          LET loaded == config.Repos
              w == Walk(fs, Nodes(fs, TRUE), flags.RootDir, loaded)
              discovered == SubSeq(w.repos, Len(loaded) + 1, Len(w.repos))
              result == config'.Repos
          IN  /\ \A r \in Range(loaded) \cup Range(discovered) :
                    Cardinality({k \in 1..Len(result) : result[k].Directory = r.Directory}) = 1
              /\ \A r \in Range(discovered) : r \in Range(result)
      ]_vars

\* update() has run on a manifest that had /r/a with u1 while /r/a/.git/config
\* has u2: the manifest now has /r/a with u2
C3_Witness ==
    /\ pc = "upgrade"
    /\ attempted = {}
    /\ flags.Update
    /\ [directory |-> DirA, remote |-> "u1"] \in Range(file0.doc.repos)
    /\ fs[DirA] = RepoOf("u2")
    /\ [Directory |-> DirA, Remote |-> "u2"] \in Range(config.Repos)
    /\ [Directory |-> DirA, Remote |-> "u1"] \notin Range(config.Repos)

(***************************************************************************)
(* C4.  gitClone for an entry whose directory has a .git directory runs no *)
(* 'git clone', whatever the remote: nothing is logged, the file system is *)
(* as it was, and the next step is the fetch of the same entry.            *)
(***************************************************************************)
C4_NoCloneWhenGitExists ==
    [][ (InLoop("clone") /\ fs[config.Repos[idx].Directory].kind = "repo") =>
          /\ \A k \in 1..Len(cmds') : cmds'[k].cmd # "clone"
          /\ \A k \in 1..Len(log') : log'[k].level # "Error"
          /\ fs' = fs
          /\ pc' = "upgrade" /\ idx' = idx /\ step' = "fetch"
      ]_vars

\* the clone step of an entry with a .git directory is over: no command was
\* run, and the fetch is next
C4_Witness ==
    /\ InLoop("fetch")
    /\ cmds = <<>>
    /\ fs[config.Repos[idx].Directory].kind = "repo"

(***************************************************************************)
(* C5 as claimed: when the walk comes to the .git of a repository whose    *)
(* config has no section remote "origin", or no url in it, update()        *)
(* returns an error: the run ends with it, so that no entry with an empty  *)
(* remote is in a manifest that is reconciled or written.                  *)
(***************************************************************************)
NoOriginUrl(F, d) ==
    /\ F[d].kind = "repo"
    /\ F[d].config = "ok"
    /\ OriginSection \in DOMAIN F[d].ini => "url" \notin DOMAIN F[d].ini[OriginSection]

C5_MissingOriginAborts ==
    \A d \in WorkDirs :
        (Join(d, DotGit) \in Range(visited) /\ NoOriginUrl(fs, d)) =>
           /\ pc = "exit"
           /\ err \notin {"nil", "write"}
           /\ attempted = {}
           /\ written = 0

(***************************************************************************)
(* C6.  A failure in upgrade() stays with its entry.  A command that ended *)
(* with an error is the last one run for its entry, and an error line is   *)
(* the last line logged for its entry; the loop is then at the clone step  *)
(* of the next entry.  When upgrade() is over, gitClone has been called    *)
(* for every entry of the manifest.                                        *)
(***************************************************************************)
\* the loop has left the entry of directory d and stands before the next one
AtNextEntryAfter(d) ==
    /\ pc = "upgrade"
    /\ step = "clone"
    /\ idx - 1 \in attempted
    /\ idx \notin attempted
    /\ config.Repos[idx - 1].Directory = d

C6_FailureIsolated ==
    /\ \A k \in 1..Len(cmds) :
          cmds[k].err # "nil" =>
             /\ k = Len(cmds)
             /\ Last(log).level = "Error"
             /\ Last(log).dir = cmds[k].dir
             /\ AtNextEntryAfter(cmds[k].dir)
    /\ \A k \in 1..Len(log) :
          log[k].level = "Error" => k = Len(log) /\ AtNextEntryAfter(log[k].dir)
    /\ (flags.Upgrade /\ (pc = "save" \/ (pc = "exit" /\ err \in {"nil", "write"}))) =>
          attempted = 1..Len(config.Repos)

\* the fetch of an entry failed, and the loop is at the clone step of the entry
\* after it
C6_Witness ==
    /\ InLoop("clone")
    /\ idx >= 2
    /\ cmds # <<>>
    /\ Last(cmds) = [cmd |-> "fetch", dir |-> config.Repos[idx - 1].Directory, err |-> "exit status 1"]
    /\ Outcome = "Failed"

(***************************************************************************)
(* C7.  When the manifest cannot be read or parsed, or when the walk       *)
(* fails, do() returns that error and the run is over: no clone, fetch,    *)
(* status or pull was or will be run, and the manifest file is never       *)
(* written and is as it was at the start.                                  *)
(***************************************************************************)
LoadErrors == {"no such file", "yaml"}
DiscoveryErrors ==
    {"permission denied", "open", "ini", "can't find origin", "can't find origin.url"}

\* the walk cannot succeed: a directory cannot be read, or the config of a
\* repository cannot be opened or parsed
DiscoveryFails(F) ==
    \E d \in WorkDirs :
        \/ F[d].kind = "locked"
        \/ F[d].kind = "repo" /\ F[d].config \in {"missing", "invalid"}

C7_LoadOrDiscoveryFailureAborts ==
    /\ (pc # "load" /\ file0.state # "yaml") => err \in LoadErrors
    /\ (pc \notin {"load", "update"} /\ file0.state = "yaml" /\ flags.Update
           /\ DiscoveryFails(fs)) => err \in DiscoveryErrors
    /\ err \in LoadErrors \cup DiscoveryErrors =>
          /\ pc = "exit"
          /\ ~ENABLED Next
          /\ attempted = {}
          /\ cmds = <<>>
          /\ written = 0
          /\ file = file0

\* the walk failed in a run that would have upgraded a manifest with entries
C7_Witness ==
    /\ pc = "exit"
    /\ err = "open"
    /\ flags.Upgrade
    /\ config.Repos # <<>>

(***************************************************************************)
(* C8 as claimed: with update enabled, once the manifest is loaded and the *)
(* walk has succeeded, the manifest is persisted; so when the run is over  *)
(* the file holds it.                                                      *)
(***************************************************************************)
C8_AlwaysPersisted ==
    (pc = "exit" /\ flags.Update /\ err \notin LoadErrors \cup DiscoveryErrors) =>
       file = YamlFile(Marshal(config))

(***************************************************************************)
(* C8, amended.  No step of upgrade() makes do() return or sets an error;  *)
(* so with update enabled, once the manifest is loaded and the walk has    *)
(* succeeded, do() comes to call WriteFile with the manifest, whatever     *)
(* failed or was skipped in upgrade(); the file holds the manifest unless  *)
(* that write itself fails.                                                *)
(***************************************************************************)
C8_WriteAlwaysAttempted ==
    /\ [][pc = "upgrade" => (err' = "nil" /\ pc' \in {"upgrade", AfterUpgrade})]_vars
    /\ (flags.Update /\ pc \in {"upgrade", "save"}) ~>
          (/\ pc = "exit"
           /\ written = 1
           /\ err \in {"nil", "write"}
           /\ err = "nil" => file = YamlFile(Marshal(config)))

\* the run is over and the manifest is in the file, though the clone of each of
\* its two entries failed (their directories are still not there)
C8_Witness ==
    /\ pc = "exit"
    /\ err = "nil"
    /\ flags.Update /\ flags.Upgrade
    /\ written = 1
    /\ file = YamlFile(Marshal(config))
    /\ Len(config.Repos) = 2
    /\ attempted = {1, 2}
    /\ \A k \in 1..2 : fs[config.Repos[k].Directory].kind = "absent"

(***************************************************************************)
(* Terms of C9 and C10: the directories of a list, and the directories     *)
(* under the root that are repositories on the disk.                       *)
(***************************************************************************)
Directories(repos) == {repos[k].Directory : k \in 1..Len(repos)}

OnDisk(F) == {d \in WorkDirs : F[d].kind = "repo"}

StrictlyAscending(repos) ==
    \A k \in 1..(Len(repos) - 1) : StrLess(repos[k].Directory, repos[k + 1].Directory)

(***************************************************************************)
(* C9 as claimed: after an update() that succeeds the directories of the   *)
(* manifest are those of the loaded manifest and of the repositories on    *)
(* the disk, in strictly ascending order, and every entry of the loaded    *)
(* manifest whose directory is not a repository on the disk is in the      *)
(* manifest as it was loaded.                                              *)
(***************************************************************************)
C9_EveryLoadedEntryRetained ==
    [][ (pc = "update" /\ pc' # "exit") =>
          LET loaded == config.Repos
              result == config'.Repos
          IN  /\ Directories(result) = Directories(loaded) \cup OnDisk(fs)
              /\ StrictlyAscending(result)
              /\ \A k \in 1..Len(loaded) :
                    loaded[k].Directory \notin OnDisk(fs) => loaded[k] \in Range(result)
      ]_vars

(***************************************************************************)
(* C9, amended.  After an update() that succeeds the directories of the    *)
(* manifest are those of the loaded manifest and of the repositories on    *)
(* the disk, in strictly ascending order; a directory of the loaded        *)
(* manifest that is not a repository on the disk is in the manifest once,  *)
(* with the remote of the last loaded entry that has this directory (the   *)
(* remote of its only entry, when the loaded manifest has the directory    *)
(* once).                                                                  *)
(***************************************************************************)
C9_UnionAscendingLastLoadedRetained ==
    [][ (pc = "update" /\ pc' # "exit") =>
          LET loaded == config.Repos
              result == config'.Repos
              IsLast(k) == \A j \in (k + 1)..Len(loaded) :
                              loaded[j].Directory # loaded[k].Directory
          IN  /\ Directories(result) = Directories(loaded) \cup OnDisk(fs)
              /\ StrictlyAscending(result)
              /\ Len(result) = Cardinality(Directories(result))
              /\ \A k \in 1..Len(loaded) :
                    (loaded[k].Directory \notin OnDisk(fs) /\ IsLast(k)) =>
                       loaded[k] \in Range(result)
      ]_vars

\* update() has run on a manifest that had only /r/c with u1, which is not on
\* the disk, while /r/a, /r/a/b and /r/a-b are repositories: the manifest has
\* the four in ascending order, /r/a-b before /r/a/b, and /r/c still with u1
C9_Witness ==
    /\ pc = "upgrade"
    /\ attempted = {}
    /\ flags.Update
    /\ file0 = YamlFile(Marshal([Repos |-> <<[Directory |-> DirC, Remote |-> "u1"]>>]))
    /\ fs[DirC].kind = "absent"
    /\ config.Repos = << [Directory |-> DirA, Remote |-> "u2"],
                         [Directory |-> DirAdashB, Remote |-> "u1"],
                         [Directory |-> DirAB, Remote |-> "u1"],
                         [Directory |-> DirC, Remote |-> "u1"] >>

(***************************************************************************)
(* C10.  When update() has just succeeded (nothing of upgrade() or of the  *)
(* write has happened yet, so the file system is the one that was walked), *)
(* for the manifest M it has produced: merging M with itself (the list     *)
(* update() merges being M followed by M) and sorting gives M, in whatever *)
(* order the map is iterated; and an update() that starts from M on this   *)
(* file system succeeds and gives M again.                                 *)
(***************************************************************************)
JustUpdated ==
    /\ flags.Update
    /\ \/ pc = "upgrade" /\ attempted = {}
       \/ pc = "save" /\ ~flags.Upgrade

C10_MergeSortIdempotent ==
    JustUpdated =>
       \A M \in {config.Repos} :
          /\ \A twice \in {M \o M} :
                \A keys \in Orders(Directories(M)) : Merge(twice, keys) = M
          /\ \A again \in {Walk(fs, Nodes(fs, TRUE), flags.RootDir, M)} :
                /\ again.err = "nil"
                /\ \A list \in {again.repos} :
                      \A keys \in Orders(Directories(list)) : Merge(list, keys) = M

\* update() has produced a manifest of three entries, one from the loaded
\* manifest only and two from the disk, one of which the loaded manifest had
\* with another remote
C10_Witness ==
    /\ pc = "upgrade"
    /\ attempted = {}
    /\ flags.Update
    /\ Len(file0.doc.repos) = 2
    /\ [directory |-> DirA, remote |-> "u1"] \in Range(file0.doc.repos)
    /\ config.Repos = << [Directory |-> DirA, Remote |-> "u2"],
                         [Directory |-> DirAdashB, Remote |-> "u1"],
                         [Directory |-> DirC, Remote |-> "u2"] >>

(***************************************************************************)
(* C11.  The two flags in do().  WriteFile is called only with update      *)
(* enabled, from the place after upgrade(): when upgrade is enabled the    *)
(* loop has then been through every entry, and nothing of upgrade()        *)
(* happens after the write.  With update disabled the file is never        *)
(* written nor changed and, once loaded, the manifest is the one read from *)
(* the file, also all through upgrade().  With upgrade disabled gitClone   *)
(* is never called and no git command is run.  With both enabled,          *)
(* upgrade() starts with the manifest that update() has just merged from   *)
(* the walk, and each command it runs is for the entry of the loop in this *)
(* manifest.                                                               *)
(***************************************************************************)
C11_TogglesOrchestrate ==
    /\ [][ (written' # written \/ file' # file) =>
              /\ flags.Update
              /\ pc = "save" /\ pc' = "exit"
              /\ written = 0
              /\ flags.Upgrade => (idx > Len(config.Repos) /\ attempted = 1..Len(config.Repos))
         ]_vars
    /\ [][ (written > 0) => UNCHANGED <<cmds, log, attempted, idx, step, config, fs>> ]_vars
    /\ [][ ~flags.Update =>
              /\ written' = 0 /\ file' = file0 /\ visited' = <<>>
              /\ (pc' # "load" /\ err' = "nil") => config' = Unmarshal(file0.doc)
         ]_vars
    /\ [][ ~flags.Upgrade => (cmds' = <<>> /\ log' = <<>> /\ attempted' = {} /\ fs' = fs) ]_vars
    /\ [][ (flags.Update /\ flags.Upgrade /\ pc' = "upgrade") =>
              /\ pc = "update" =>
                    \E w \in {Walk(fs, Nodes(fs, TRUE), flags.RootDir, config.Repos)} :
                       \E keys \in Orders(Directories(w.repos)) :
                          config'.Repos = Merge(w.repos, keys)
              /\ pc = "upgrade" =>
                    /\ config' = config
                    /\ \A k \in (Len(cmds) + 1)..Len(cmds') :
                          cmds'[k].dir = config.Repos[idx].Directory
         ]_vars

\* a run with both flags is over: update() has replaced the loaded manifest,
\* upgrade() has been through its two entries, and the file has been written
C11_Witness ==
    /\ pc = "exit"
    /\ flags.Update /\ flags.Upgrade
    /\ written = 1
    /\ err = "nil"
    /\ Len(config.Repos) = 2
    /\ attempted = {1, 2}
    /\ config # Unmarshal(file0.doc)
    /\ file # file0

(***************************************************************************)
(* Terms of C12 and C13: the names of the commands run for the entry of    *)
(* the loop, in order, and the orders that upgrade() allows.               *)
(***************************************************************************)
CmdNames(q) == [k \in 1..Len(q) |-> q[k].cmd]

IsPrefix(p, q) == Len(p) <= Len(q) /\ SubSeq(q, 1, Len(p)) = p

StepOrders == { <<"clone", "fetch", "status", "pull">>, <<"fetch", "status", "pull">> }

(***************************************************************************)
(* C12.  The commands run for one entry are, in this order, clone (left    *)
(* out when .git is there), fetch, status, pull, each run only when the    *)
(* one before it returned no error, and pull only when the text of status  *)
(* matched; so a clone that succeeded is followed by fetch, status and the *)
(* match like any other entry.  The commands of a step are for the entry   *)
(* of the loop, the loop goes from an entry to the next one only, and      *)
(* gitClone has been called for the entries before the entry of the loop   *)
(* and for no later one.                                                   *)
(***************************************************************************)
C12_StepOrder ==
    /\ [][ /\ \E o \in StepOrders : IsPrefix(CmdNames(cmds'), o)
           /\ \A k \in 1..(Len(cmds') - 1) : cmds'[k].err = "nil"
           /\ \A k \in 1..Len(cmds') :
                 /\ cmds'[k].cmd = "pull" => Match(gitStatusTemplateRe, stdoutBytes')
                 /\ (cmds'[k].cmd = "fetch" /\ k = 1) => Stat(fs, cmds'[k].dir) = "nil"
           /\ (pc = "upgrade" /\ pc' = "upgrade") =>
                 /\ idx' \in {idx, idx + 1}
                 /\ \A k \in 1..Len(cmds') : cmds'[k].dir = config.Repos[idx].Directory
                 /\ attempted' = 1..idx
                 /\ attempted \in {1..(idx - 1), 1..idx}
                 /\ idx' = idx + 1 => step' = "clone"
                 /\ (cmds' # <<>> /\ Last(cmds') = Cmd("clone", config.Repos[idx], "nil")) =>
                       (idx' = idx /\ step' = "fetch")
         ]_vars

\* the second entry of the manifest has been cloned, fetched and pulled after
\* the commands of the first one
C12_Witness ==
    /\ pc = "upgrade"
    /\ idx = 3
    /\ attempted = {1, 2}
    /\ CmdNames(cmds) = <<"clone", "fetch", "status", "pull">>
    /\ \A k \in 1..4 : cmds[k].dir = config.Repos[2].Directory /\ cmds[k].err = "nil"

(***************************************************************************)
(* C13.  gitClone is called once for an entry (the loop is at its clone    *)
(* step exactly when gitClone has not been called for the entry), each of  *)
(* clone, fetch, status and pull is run at most once for it, and after a   *)
(* command that failed no command is run for it: the loop is at the next   *)
(* entry.  When the loop leaves an entry, the entry has one outcome:       *)
(* Success when pull was run and returned no error, Skipped when status    *)
(* returned no error and its text did not match, Failed when the last      *)
(* command failed or the directory could not be examined; before that it   *)
(* has none.                                                               *)
(***************************************************************************)
C13_NoRetries ==
    [][ (pc = "upgrade" /\ pc' = "upgrade") =>
          /\ (step = "clone") <=> (idx \notin attempted)
          /\ idx' >= idx
          /\ \A j, k \in 1..Len(cmds') : cmds'[j].cmd = cmds'[k].cmd => j = k
          /\ (cmds' # <<>> /\ Last(cmds').err # "nil") =>
                (idx' = idx + 1 /\ step' = "clone" /\ idx \in attempted')
          /\ IF idx' = idx THEN Outcome' = "none"
             ELSE /\ Outcome' \in {"Success", "Skipped", "Failed"}
                  /\ Outcome' = "Success" <=>
                        (cmds' # <<>> /\ Last(cmds').cmd = "pull" /\ Last(cmds').err = "nil")
                  /\ Outcome' = "Skipped" <=>
                        /\ cmds' # <<>>
                        /\ Last(cmds').cmd = "status" /\ Last(cmds').err = "nil"
                        /\ ~Match(gitStatusTemplateRe, stdoutBytes')
                  /\ Outcome' = "Failed" <=> (cmds' = <<>> \/ Last(cmds').err # "nil")
      ]_vars

\* fetch has failed for the first entry, which has .git: it is Failed, fetch
\* was its only command, and the loop is at the second entry
C13_Witness ==
    /\ pc = "upgrade"
    /\ idx = 2
    /\ step = "clone"
    /\ attempted = {1}
    /\ Len(config.Repos) = 2
    /\ cmds = <<Cmd("fetch", config.Repos[1], "exit status 1")>>
    /\ Outcome = "Failed"

(***************************************************************************)
(* C14 as claimed: after an update() that succeeds, the entry of every     *)
(* repository on the disk, which the walk has added, has a directory and   *)
(* a remote that are not the empty string.                                 *)
(***************************************************************************)
C14_BothFieldsPopulated ==
    [][ (pc = "update" /\ pc' # "exit") =>
          \A k \in 1..Len(config'.Repos) :
             config'.Repos[k].Directory \in OnDisk(fs) =>
                /\ config'.Repos[k].Directory # <<>>
                /\ config'.Repos[k].Remote # ""
      ]_vars

(***************************************************************************)
(* Terms of C15: the lists that have the elements of a list in some order. *)
(***************************************************************************)
Reorderings(q) == { [k \in 1..Len(q) |-> q[o[k]]] : o \in Orders(1..Len(q)) }

(***************************************************************************)
(* C15.  When update() has just succeeded, the manifest it has produced is *)
(* the one that the merge and the sort give from the loaded manifest       *)
(* followed by the entries the walk has appended, taken in any order, and  *)
(* for any order in which the map is iterated: the manifest is a function  *)
(* of the loaded manifest and of the repositories on the disk alone.       *)
(***************************************************************************)
C15_WalkOrderIrrelevant ==
    JustUpdated =>
       \A loaded \in {Unmarshal(file0.doc).Repos} :
          \A w \in {Walk(fs, Nodes(fs, TRUE), flags.RootDir, loaded)} :
             \A discovered \in {SubSeq(w.repos, Len(loaded) + 1, Len(w.repos))} :
                /\ Directories(discovered) = OnDisk(fs)
                /\ \A other \in Reorderings(discovered) :
                      \A list \in {loaded \o other} :
                         \A keys \in Orders(Directories(list)) :
                            Merge(list, keys) = config.Repos

\* update() has run on a manifest that had /r/a-b and /r/a, in this order and
\* with other remotes than the two repositories on the disk have
C15_Witness ==
    /\ pc = "upgrade"
    /\ attempted = {}
    /\ flags.Update
    /\ Unmarshal(file0.doc).Repos = << [Directory |-> DirAdashB, Remote |-> "u2"],
                                       [Directory |-> DirA, Remote |-> "u1"] >>
    /\ fs[DirAB].kind = "absent"
    /\ config.Repos = << [Directory |-> DirA, Remote |-> "u2"],
                         [Directory |-> DirAdashB, Remote |-> "u1"] >>

(***************************************************************************)
(* C16.  No step of upgrade(), and nothing in do() after update(), assigns *)
(* config: from the end of update() to the end of the run the list of      *)
(* entries stays as it is, whatever the commands of an entry returned.  So *)
(* the document that a write that succeeds puts in the file is the list    *)
(* that upgrade() started with, which with update enabled is the one       *)
(* update() produced; read back, it gives this list.                       *)
(***************************************************************************)
C16_UpgradeKeepsManifest ==
    /\ [][ (pc \in {"upgrade", "save"}) => (config' = config) ]_vars
    /\ [][ (pc = "save" /\ err' = "nil") =>
              /\ file' = YamlFile(Marshal(config))
              /\ Unmarshal(file'.doc) = config
              /\ flags.Upgrade => attempted = 1..Len(config.Repos)
         ]_vars

\* the run is over and the file holds the two entries of the manifest: the
\* clone of the first one failed (its directory is still not there), the second
\* one is a repository
C16_Witness ==
    /\ pc = "exit"
    /\ err = "nil"
    /\ flags.Update /\ flags.Upgrade
    /\ written = 1
    /\ attempted = {1, 2}
    /\ Len(config.Repos) = 2
    /\ Unmarshal(file.doc) = config
    /\ fs[config.Repos[1].Directory].kind = "absent"
    /\ fs[config.Repos[2].Directory].kind = "repo"

(***************************************************************************)
(* Terms of C17: is path p inside a directory named .git.                  *)
(***************************************************************************)
RECURSIVE BelowDotGit(_)
BelowDotGit(p) ==
    IF Len(p) <= 1 \/ LastSep(p) <= 1 THEN FALSE
    ELSE Base(Dir(p)) = DotGit \/ BelowDotGit(Dir(p))

(***************************************************************************)
(* C17.  The callback is never called with a path inside a .git directory. *)
(* When update() has just succeeded, it was called with every directory    *)
(* that exists under the root, also those inside the working tree of a     *)
(* repository, and with the .git of every repository; each repository has  *)
(* its own entry in the manifest, so that a repository inside another      *)
(* repository's working tree and the outer repository are two entries.     *)
(***************************************************************************)
C17_OnlyDotGitPruned ==
    /\ \A k \in 1..Len(visited) : ~BelowDotGit(visited[k])
    /\ JustUpdated =>
          \A d \in WorkDirs :
             /\ Present(fs, d) => d \in Range(visited)
             /\ fs[d].kind = "repo" =>
                   /\ Join(d, DotGit) \in Range(visited)
                   /\ Cardinality({k \in 1..Len(config.Repos) :
                                      config.Repos[k].Directory = d}) = 1
                   /\ [Directory |-> d,
                       Remote |-> remoteDir(fs, Join(d, DotGit)).remote] \in Range(config.Repos)

\* update() has run on an empty manifest with the repository /r/a/b inside the
\* working tree of the repository /r/a: the manifest has both
C17_Witness ==
    /\ pc = "upgrade"
    /\ attempted = {}
    /\ flags.Update
    /\ Unmarshal(file0.doc).Repos = <<>>
    /\ fs[DirA] = RepoOf("u2")
    /\ fs[DirAB] = RepoOf("u1")
    /\ fs[DirAdashB].kind = "absent"
    /\ Join(Join(DirA, DotGit), ConfigName) \notin Range(visited)
    /\ config.Repos = << [Directory |-> DirA, Remote |-> "u2"],
                         [Directory |-> DirAB, Remote |-> "u1"] >>

====
